---- MODULE Spec2Model ----
(***************************************************************************)
(* Model of the responseCookie template tag (src/index.js).                *)
(*                                                                         *)
(* The tag's run handler is evaluated by a host while the host renders a   *)
(* request's template.  The handler looks a dependent request up, decides  *)
(* whether to send it again, possibly asks the host to send it (the host   *)
(* then renders that request's own template, which may hold further tags), *)
(* validates the response and extracts one cookie from it.                 *)
(*                                                                         *)
(* JavaScript strings are sequences of one-character strings, so that      *)
(* toLowerCase, trim and Cookie.parse are computed and not assumed.        *)
(* JavaScript values that may be undefined are tagged records.             *)
(***************************************************************************)
EXTENDS Integers, Sequences, FiniteSets, TLC

\* ------------------------------------------------------------ JS values

Undefined == [t |-> "undefined"]

Str(s) == [t |-> "string", s |-> s]

Num(n) == [t |-> "number", n |-> n]

\* A variant of Falsy that takes the empty string for a value.
Falsy_NotEmptyString(v) ==
    \/ v.t = "undefined"
    \/ (v.t = "number" /\ v.n = 0)

\* A truthiness under which the number 0 counts as present.
Falsy_NotZero(v) == v = Undefined \/ v = Str(<<>>)

\* !v for the values the model uses: undefined, "" and 0 are falsy.
Falsy(v) ==
    \/ v.t = "undefined"
    \/ (v.t = "string" /\ v.s = <<>>)
    \/ (v.t = "number" /\ v.n = 0)

\* ------------------------------------------------------------ strings

UpperChars == <<"A","B","C","D","E","F","G","H","I","J","K","L","M",
                "N","O","P","Q","R","S","T","U","V","W","X","Y","Z">>

LowerChars == <<"a","b","c","d","e","f","g","h","i","j","k","l","m",
                "n","o","p","q","r","s","t","u","v","w","x","y","z">>

LowerChar(c) ==
    IF \E i \in 1..26 : UpperChars[i] = c
    THEN LowerChars[CHOOSE i \in 1..26 : UpperChars[i] = c]
    ELSE c

\* String.prototype.toLowerCase
toLowerCase(s) == [i \in 1..Len(s) |-> LowerChar(s[i])]

\* String.prototype.indexOf for a one-character needle; 0 stands for -1 and
\* positions are 1-based.
IndexOf(s, c) ==
    IF \E i \in 1..Len(s) : s[i] = c
    THEN CHOOSE i \in 1..Len(s) : s[i] = c /\ \A j \in 1..(i-1) : s[j] # c
    ELSE 0

\* String.prototype.trim (the model's only whitespace is the space).
RECURSIVE TrimLeft(_)
TrimLeft(s) == IF s # <<>> /\ Head(s) = " " THEN TrimLeft(Tail(s)) ELSE s

RECURSIVE TrimRight(_)
TrimRight(s) ==
    IF s # <<>> /\ s[Len(s)] = " " THEN TrimRight(SubSeq(s, 1, Len(s)-1)) ELSE s

Trim(s) == TrimRight(TrimLeft(s))

\* Array.prototype.join(", ") over strings.
RECURSIVE JoinCommaSpace(_)
JoinCommaSpace(ss) ==
    IF ss = <<>> THEN <<>>
    ELSE IF Len(ss) = 1 THEN ss[1]
    ELSE ss[1] \o <<",", " ">> \o JoinCommaSpace(Tail(ss))

\* Array.prototype.some((x) => x === v)
SomeEquals(s, v) == \E i \in 1..Len(s) : s[i] = v

\* ------------------------------------------------------------ constants

S_never       == <<"n","e","v","e","r">>
S_no_history  == <<"n","o","-","h","i","s","t","o","r","y">>
S_when_expired == <<"w","h","e","n","-","e","x","p","i","r","e","d">>
S_always      == <<"a","l","w","a","y","s">>
S_set_cookie  == <<"s","e","t","-","c","o","o","k","i","e">>
S_send        == <<"s","e","n","d">>

\* const TriggerBehavior = {...}
TriggerBehavior ==
    [Never |-> S_never, NoHistory |-> S_no_history,
     WhenExpired |-> S_when_expired, Always |-> S_always]

defaultTriggerBehaviour == TriggerBehavior.Never

\* ------------------------------------------------------------ options

\* args[i] of a JavaScript array (0-based i): undefined past the end.
ArgAt(args, i) == IF i + 1 <= Len(args) THEN args[i + 1] ELSE Undefined

\* parseOptions without the toLowerCase of the trigger behavior.
parseOptions_CaseSensitive(args) ==
    [reqId |-> ArgAt(args, 0),
     cookieName |-> ArgAt(args, 1),
     triggerBehavior |->
        IF Falsy(ArgAt(args, 2)) THEN defaultTriggerBehaviour
        ELSE ArgAt(args, 2).s,
     maxAgeSeconds |-> ArgAt(args, 3)]

\* function parseOptions(args)
parseOptions(args) ==
    [reqId |-> ArgAt(args, 0),
     cookieName |-> ArgAt(args, 1),
     triggerBehavior |->
        toLowerCase(IF Falsy(ArgAt(args, 2)) THEN defaultTriggerBehaviour
                    ELSE ArgAt(args, 2).s),
     maxAgeSeconds |-> ArgAt(args, 3)]

\* ------------------------------------------------------------ resend policy

\* A variant of AgeExceeds that lets a response expire at maxAgeSeconds sharp.
AgeExceeds_AtEquality(nowMs, createdMs, maxAgeSeconds) ==
    IF maxAgeSeconds.t = "number"
    THEN (nowMs - createdMs) >= 1000 * maxAgeSeconds.n
    ELSE FALSE

\* (Date.now() - response.created) / 1000 > options.maxAgeSeconds.  The
\* timestamps are whole milliseconds, so the quotient q = ms / 1000 exceeds a
\* whole number of seconds m exactly when ms > 1000 * m (the division is exact
\* to well below a millisecond for every timestamp a clock can give).  A
\* comparison with undefined is a comparison with NaN: false.
AgeExceeds(nowMs, createdMs, maxAgeSeconds) ==
    IF maxAgeSeconds.t = "number"
    THEN (nowMs - createdMs) > 1000 * maxAgeSeconds.n
    ELSE FALSE

\* A variant of checkShouldResend whose "no-history" case resends when a
\* response exists.
checkShouldResend_Inverted(response, options, nowMs) ==
    CASE options.triggerBehavior = TriggerBehavior.Always -> TRUE
      [] options.triggerBehavior = TriggerBehavior.NoHistory -> ~Falsy(response)
      [] options.triggerBehavior = TriggerBehavior.WhenExpired ->
            IF Falsy(response) THEN TRUE
            ELSE AgeExceeds(nowMs, response.created, options.maxAgeSeconds)
      [] OTHER -> FALSE

\* function checkShouldResend(response, options), with Date.now() as nowMs
checkShouldResend(response, options, nowMs) ==
    CASE options.triggerBehavior = TriggerBehavior.Always -> TRUE
      [] options.triggerBehavior = TriggerBehavior.NoHistory -> Falsy(response)
      [] options.triggerBehavior = TriggerBehavior.WhenExpired ->
            IF Falsy(response) THEN TRUE
            ELSE AgeExceeds(nowMs, response.created, options.maxAgeSeconds)
      [] OTHER -> FALSE

\* ------------------------------------------------------------ cookies

\* Cookie.parse(str) of tough-cookie, strict mode: the cookie-pair is the text
\* before the first ";", it must hold "=" after a non-empty name, name and
\* value are trimmed, the attributes are not used here.  undefined otherwise.
CookieParse(str) ==
    LET s == Trim(str)
        firstSemi == IndexOf(s, ";")
        cookiePair == IF firstSemi = 0 THEN s ELSE SubSeq(s, 1, firstSemi - 1)
        firstEq == IndexOf(cookiePair, "=")
    IN  IF firstEq <= 1 THEN Undefined
        ELSE [t |-> "cookie",
              key |-> Trim(SubSeq(cookiePair, 1, firstEq - 1)),
              value |-> Trim(SubSeq(cookiePair, firstEq + 1, Len(cookiePair)))]

\* getCookies comparing the header's name as it is written.
RECURSIVE CookiesOf_ExactName(_)
CookiesOf_ExactName(headers) ==
    IF headers = <<>> THEN <<>>
    ELSE IF Head(headers).name = S_set_cookie
         THEN <<CookieParse(Head(headers).value)>>
                 \o CookiesOf_ExactName(Tail(headers))
         ELSE CookiesOf_ExactName(Tail(headers))

\* function getCookies(response)
RECURSIVE CookiesOf(_)
CookiesOf(headers) ==
    IF headers = <<>> THEN <<>>
    ELSE IF toLowerCase(Head(headers).name) = S_set_cookie
         THEN <<CookieParse(Head(headers).value)>> \o CookiesOf(Tail(headers))
         ELSE CookiesOf(Tail(headers))

getCookies(response) == CookiesOf(response.headers)

\* A variant of FilterByKey that compares the keys without regard to case.
RECURSIVE FilterByKey_IgnoreCase(_, _)
FilterByKey_IgnoreCase(cookies, cookieName) ==
    IF cookies = <<>> THEN <<>>
    ELSE IF toLowerCase(Head(cookies).key) = toLowerCase(cookieName)
         THEN <<Head(cookies)>> \o FilterByKey_IgnoreCase(Tail(cookies), cookieName)
         ELSE FilterByKey_IgnoreCase(Tail(cookies), cookieName)

\* cookies.filter((c) => c.key == cookieName), every cookie defined
RECURSIVE FilterByKey(_, _)
FilterByKey(cookies, cookieName) ==
    IF cookies = <<>> THEN <<>>
    ELSE IF Head(cookies).key = cookieName
         THEN <<Head(cookies)>> \o FilterByKey(Tail(cookies), cookieName)
         ELSE FilterByKey(Tail(cookies), cookieName)

\* ------------------------------------------------------------ outcomes

\* What an evaluation of the tag ends with: a returned string (parts holds it),
\* or a thrown error with its constructor name, the literal text of its
\* message and the strings interpolated into the message, in order.
Return(value) ==
    [kind |-> "return", name |-> "", message |-> "", parts |-> <<value>>]

Throw(name, message, parts) ==
    [kind |-> "throw", name |-> name, message |-> message, parts |-> parts]

NoOutcome == [kind |-> "none", name |-> "", message |-> "", parts |-> <<>>]

\* cookies.map((c) => c.key)
KeysOf(cookies) == [i \in 1..Len(cookies) |-> cookies[i].key]

\* A variant of ValidateAndExtract that checks the status code before the
\* transport error.
ValidateAndExtract_StatusFirst(response, options) ==
    IF Falsy(response) THEN Throw("Error", "No responses for request", <<>>)
    ELSE IF Falsy(response.statusCode)
    THEN Throw("Error", "No successful responses for request", <<>>)
    ELSE IF ~Falsy(response.error)
    THEN Throw("Error", "Failed to send dependent request $1",
               <<response.error.s>>)
    ELSE LET cookies == getCookies(response) IN
         IF Len(cookies) = 0
         THEN Throw("Error", "No cookies set for response", <<>>)
         ELSE IF \E i \in 1..Len(cookies) : cookies[i] = Undefined
         THEN Throw("TypeError", "Cannot read properties of undefined", <<>>)
         ELSE LET matching == FilterByKey(cookies, options.cookieName.s) IN
              IF matching = <<>>
              THEN Throw("Error", "No $1 cookie for response. Choices are $2.",
                         <<options.cookieName.s, JoinCommaSpace(KeysOf(cookies))>>)
              ELSE Return(matching[1].value)

\* run, from the validation of the response to the returned cookie value
ValidateAndExtract(response, options) ==
    IF Falsy(response) THEN Throw("Error", "No responses for request", <<>>)
    ELSE IF ~Falsy(response.error)
    THEN Throw("Error", "Failed to send dependent request $1",
               <<response.error.s>>)
    ELSE IF Falsy(response.statusCode)
    THEN Throw("Error", "No successful responses for request", <<>>)
    ELSE LET cookies == getCookies(response) IN
         IF Len(cookies) = 0
         THEN Throw("Error", "No cookies set for response", <<>>)
         ELSE IF \E i \in 1..Len(cookies) : cookies[i] = Undefined
         THEN Throw("TypeError", "Cannot read properties of undefined", <<>>)
         ELSE LET matching == FilterByKey(cookies, options.cookieName.s) IN
              IF matching = <<>>
              THEN Throw("Error", "No $1 cookie for response. Choices are $2.",
                         <<options.cookieName.s, JoinCommaSpace(KeysOf(cookies))>>)
              ELSE Return(matching[1].value)

\* ------------------------------------------------------------ bounds

\* The default the tag declares for its maxAgeSeconds argument. The host puts
\* it into the tags its editor builds; parseOptions does not apply it.
maxAgeSecondsDefault == 60

\* Tags in all templates of a dependency graph together.
MaxTotalTags == 3

\* Headers of a response.
MaxHeaders == 2

\* Length of the chain an evaluation context holds before the render starts.
MaxChain == 2

\* Largest maxAgeSeconds argument; the ages of stored responses straddle
\* every whole second up to it.
MaxAge == 2

\* Cap on the depth of nested renders (reached only if the cycle guard fails).
MaxDepth == 6

\* Tags in the templates when two renders run at once.
MaxConcurrentTags == 2

\* ------------------------------------------------------------ state

VARIABLES
    scenario,       \* which family of inputs this run was drawn from
    template,       \* request id -> the tags of its template, each its args
    requestStore,   \* ids of the requests the request store holds
    responseStore,  \* request id -> latest response, or undefined
    hostShares,     \* the host hands arrays over by reference (else by copy)
    now,            \* Date.now()
    heap,           \* the arrays that hold evaluation chains, by address
    stack,          \* the renders in progress, the innermost last
    sendCount,      \* request id -> executions by the transport in this render
    last,           \* the evaluation that completed most recently
    steps,          \* steps of run and of the host taken in this render
    pushedIds,      \* ids the render in progress has pushed onto chains
    parked          \* a second top-level render, suspended: its stack and pushedIds

vars == <<scenario, template, requestStore, responseStore, hostShares, now,
          heap, stack, sendCount, last, steps, pushedIds, parked>>

R1 == <<"r", "1">>
R2 == <<"r", "2">>
R3 == <<"r", "3">>
Ghost == <<"r", "9">>

ReqIds == {R1, R2, R3}

Response(created, statusCode, error, headers) ==
    [t |-> "response", created |-> created, statusCode |-> statusCode,
     error |-> error, headers |-> headers]

Request(id) == [t |-> "request", id |-> id]

\* The record of one evaluation of the tag: its inputs, what it did so far
\* and what it ended with.
NoEval ==
    [node |-> <<>>, depth |-> 0, purpose |-> Undefined, args |-> <<>>,
     options |-> parseOptions(<<>>),
     hadChain |-> FALSE, chainAtStart |-> <<>>, chainAtEnd |-> <<>>,
     request |-> Undefined, fetched |-> Undefined, response |-> Undefined,
     decided |-> FALSE, shouldResend |-> FALSE, guardHit |-> FALSE,
     sentChain |-> <<>>, transport |-> "none", received |-> Undefined,
     nGetById |-> 0, nGetLatest |-> 0, nSend |-> 0,
     outcome |-> NoOutcome]

\* A render of one request's template in an evaluation context.
NewFrame(node, purpose, chainRef) ==
    [node |-> node, purpose |-> purpose, chainRef |-> chainRef,
     tagIdx |-> 1, pc |-> "idle", ev |-> NoEval]

Top == stack[Len(stack)]

SetTop(f) == [stack EXCEPT ![Len(stack)] = f]

\* getExtraInfo("requestChain") with a fallback every render shares: a context
\* without a chain reads the chain made last, by whichever render.
ChainOf_SharedFallback(f) ==
    IF f.chainRef # 0 THEN heap[f.chainRef]
    ELSE IF heap # <<>> THEN heap[Len(heap)] ELSE <<>>

\* context.context.getExtraInfo("requestChain"): the chain the context holds,
\* read through its address; address 0 is a context without one.
ChainOf(f) == IF f.chainRef = 0 THEN <<>> ELSE heap[f.chainRef]

\* An evaluation ends by throwing: the render it is part of is aborted.
Failed(f, outcome) ==
    [f EXCEPT !.pc = "failed",
              !.ev = [f.ev EXCEPT !.outcome = outcome,
                                  !.chainAtEnd = ChainOf(f)]]

\* An evaluation ends by returning: the render goes on to its next tag.
Returned(f) ==
    [f EXCEPT !.pc = "idle", !.tagIdx = f.tagIdx + 1, !.ev = NoEval]

\* ------------------------------------------------------------ the tag: run

\* run, from its start to the call of the request store: the arguments are
\* parsed and checked.
CanRunStart ==
    /\ stack # <<>>
    /\ Top.pc = "idle"
    /\ Top.tagIdx <= Len(template[Top.node])

RunStart ==
    /\ CanRunStart
    /\ LET f == Top
           args == template[f.node][f.tagIdx]
           options == parseOptions(args)
           f0 == [f EXCEPT !.ev = [NoEval EXCEPT
                     !.node = f.node, !.depth = Len(stack),
                     !.purpose = f.purpose, !.args = args,
                     !.options = options, !.hadChain = (f.chainRef # 0),
                     !.chainAtStart = ChainOf(f)]]
       IN  IF Falsy(options.reqId)
           THEN LET g == Failed(f0, Throw("Error", "No request specified", <<>>))
                IN  stack' = SetTop(g) /\ last' = g.ev
           ELSE IF Falsy(options.cookieName)
           THEN LET g == Failed(f0, Throw("Error", "No cookie specified", <<>>))
                IN  stack' = SetTop(g) /\ last' = g.ev
           ELSE /\ stack' = SetTop([f0 EXCEPT !.pc = "getById",
                                              !.ev.nGetById = 1])
                /\ last' = last
    /\ steps' = steps + 1
    /\ UNCHANGED <<pushedIds, parked, scenario, template, requestStore,
                   responseStore,
                   hostShares, now, heap, sendCount>>

\* context.util.models.request.getById(id)
getById(id) == IF id \in requestStore THEN Request(id) ELSE Undefined

\* run, from the answer of the request store to the call of the response
\* store.  The message of the error for a missing request reads the
\* variable reqId, which run does not declare: building the message throws a
\* ReferenceError and the Error is never constructed.
CanRunFetch == stack # <<>> /\ Top.pc = "getById"

RunFetch ==
    /\ CanRunFetch
    /\ LET f == Top
           request == getById(f.ev.options.reqId.s)
       IN  IF Falsy(request)
           THEN LET g == Failed(f, Throw("ReferenceError",
                                         "reqId is not defined", <<>>))
                IN  stack' = SetTop(g) /\ last' = g.ev
           ELSE /\ stack' = SetTop([f EXCEPT !.pc = "getLatest",
                                             !.ev.request = request,
                                             !.ev.nGetLatest = 1])
                /\ last' = last
    /\ steps' = steps + 1
    /\ UNCHANGED <<pushedIds, parked, scenario, template, requestStore,
                   responseStore,
                   hostShares, now, heap, sendCount>>

\* context.util.models.response.getLatestForRequestId(request._id, env)
getLatestForRequestId(id) == responseStore[id]

\* The evaluation at the answer of the response store, with the decision made.
Decided(f) ==
    LET response == getLatestForRequestId(f.ev.request.id)
    IN  [f EXCEPT !.ev.fetched = response,
                  !.ev.response = response,
                  !.ev.decided = TRUE,
                  !.ev.shouldResend =
                      checkShouldResend(response, f.ev.options, now)]

\* A variant of WantsResend that does not look at the render purpose.
WantsResend_AnyPurpose(f) == f.ev.shouldResend

\* shouldResend && context.renderPurpose === "send"
WantsResend(f) == f.ev.shouldResend /\ f.purpose = Str(S_send)

\* resendRequest comparing the request's id with the chain's first id only.
ChainHasRequest_FirstOnly(f) ==
    LET chain == ChainOf(f)
    IN  chain # <<>> /\ chain[1] = f.ev.request.id

\* A variant of ChainHasRequest that finds no id in any chain.
ChainHasRequest_Never(f) == FALSE

\* A variant of ChainHasRequest that looks at the last id of the chain only.
ChainHasRequest_LastOnly(f) ==
    /\ ChainOf(f) # <<>>
    /\ ChainOf(f)[Len(ChainOf(f))] = f.ev.request.id

\* requestChain.some((id) => id === request._id)
ChainHasRequest(f) == SomeEquals(ChainOf(f), f.ev.request.id)

\* run: no resend is decided, or the render is not a send; the fetched
\* response is kept.
CanRunKeep ==
    /\ stack # <<>>
    /\ Top.pc = "getLatest"
    /\ ~WantsResend(Decided(Top))

RunKeep ==
    /\ CanRunKeep
    /\ stack' = SetTop([Decided(Top) EXCEPT !.pc = "validate"])
    /\ steps' = steps + 1
    /\ UNCHANGED <<pushedIds, parked, scenario, template, requestStore,
                   responseStore,
                   hostShares, now, heap, sendCount, last>>

\* run and resendRequest: the request is in the chain already; resendRequest
\* returns undefined and the fetched response is kept.
CanRunResendSkip ==
    /\ stack # <<>>
    /\ Top.pc = "getLatest"
    /\ WantsResend(Decided(Top))
    /\ ChainHasRequest(Decided(Top))

RunResendSkip ==
    /\ CanRunResendSkip
    /\ stack' = SetTop([Decided(Top) EXCEPT !.pc = "validate",
                                            !.ev.guardHit = TRUE])
    /\ steps' = steps + 1
    /\ UNCHANGED <<pushedIds, parked, scenario, template, requestStore,
                   responseStore,
                   hostShares, now, heap, sendCount, last>>

\* resendRequest without the aliasing: the id is pushed onto a copy always.
PushesInPlace_Never(f) == FALSE

\* requestChain.push(request._id) changes the array the context holds: the
\* context holds one and the host handed over that array, not a copy.
PushesInPlace(f) == hostShares /\ f.chainRef # 0

\* run and resendRequest: the request's id is pushed onto the chain and the
\* transport is asked to send the request with that chain.  The array pushed
\* onto is the one the context holds when the host hands arrays over by
\* reference, and a fresh one when the context holds none or the host copies;
\* the host starts the render of the request's template in a new context.
CanRunResend ==
    /\ stack # <<>>
    /\ Top.pc = "getLatest"
    /\ WantsResend(Decided(Top))
    /\ ~ChainHasRequest(Decided(Top))
    /\ Len(stack) < MaxDepth

RunResend ==
    /\ CanRunResend
    /\ LET f == Decided(Top)
           id == f.ev.request.id
           pushed == Append(ChainOf(f), id)
           inPlace == PushesInPlace(f)
           ref == IF inPlace THEN f.chainRef ELSE Len(heap) + 1
       IN  /\ heap' = IF inPlace THEN [heap EXCEPT ![ref] = pushed]
                      ELSE Append(heap, pushed)
           /\ stack' = Append(SetTop([f EXCEPT !.pc = "sending",
                                               !.ev.nSend = 1,
                                               !.ev.sentChain = pushed]),
                              NewFrame(id, Str(S_send), ref))
           /\ sendCount' = [sendCount EXCEPT ![id] = @ + 1]
           /\ pushedIds' = pushedIds \cup {id}
    /\ steps' = steps + 1
    /\ UNCHANGED <<parked, scenario, template, requestStore, responseStore,
                   hostShares, now, last>>

\* run, from the validation of the response to its end.
CanRunFinish == stack # <<>> /\ Top.pc = "validate"

RunFinish ==
    /\ CanRunFinish
    /\ LET f == Top
           outcome == ValidateAndExtract(f.ev.response, f.ev.options)
       IN  IF outcome.kind = "throw"
           THEN LET g == Failed(f, outcome)
                IN  stack' = SetTop(g) /\ last' = g.ev
           ELSE /\ stack' = SetTop(Returned(f))
                /\ last' = [f.ev EXCEPT !.outcome = outcome,
                                        !.chainAtEnd = ChainOf(f)]
    /\ steps' = steps + 1
    /\ UNCHANGED <<pushedIds, parked, scenario, template, requestStore,
                   responseStore,
                   hostShares, now, heap, sendCount>>

\* ------------------------------------------------------------ input samples

S_general == <<"g","e","n","e","r","a","l">>
S_Always  == <<"A","l","w","a","y","s">>
S_NO_HISTORY == <<"N","O","-","H","I","S","T","O","R","Y">>
S_When_Expired == <<"W","h","e","n","-","E","x","p","i","r","e","d">>
S_bogus   == <<"b","o","g","u","s">>
S_Set_Cookie == <<"S","e","t","-","C","o","o","k","i","e">>
S_SET_COOKIE == <<"S","E","T","-","C","O","O","K","I","E">>
S_cookie  == <<"c","o","o","k","i","e">>
S_timeout == <<"t","i","m","e","o","u","t">>

\* Cookie names asked for.
CookieNames == {<<"s">>, <<"S">>, <<"t">>}

\* Headers a response may hold: Set-Cookie in three spellings, with
\* attributes, with spaces, not parseable as a cookie, and a header that is
\* not Set-Cookie but holds a cookie pair.
HeaderSamples ==
    {[name |-> S_Set_Cookie, value |-> <<"s","=","1">>],
     [name |-> S_set_cookie, value |-> <<"s","=","2",";"," ","x","=","y">>],
     [name |-> S_SET_COOKIE, value |-> <<"S","=","3">>],
     [name |-> S_set_cookie, value |-> <<" ","t"," ","=","4"," ">>],
     [name |-> S_set_cookie, value |-> <<"j","u","n","k">>],
     [name |-> S_cookie,     value |-> <<"s","=","9">>]}

HeaderLists == UNION {[1..n -> HeaderSamples] : n \in 0..MaxHeaders}

\* Every response over the samples, created at the given time.
RichResponses(created) ==
    {Response(created, st, er, hs) :
        st \in {Undefined, Num(0), Num(200)},
        er \in {Undefined, Str(<<>>), Str(S_timeout)},
        hs \in HeaderLists}

GoodResponse(created) ==
    Response(created, Num(200), Str(<<>>),
             <<[name |-> S_Set_Cookie, value |-> <<"s","=","1">>]>>)

ErrorResponse(created) ==
    Response(created, Undefined, Str(S_timeout), <<>>)

\* Date.now() during the render.
NowMs == 1000 * (maxAgeSecondsDefault + MaxAge) + 1000

\* Ages of stored responses, in milliseconds: none, one millisecond, and one
\* millisecond before, at and after every whole second up to MaxAge and the
\* declared default.
AgesMs ==
    {0, 1}
      \cup UNION {{1000 * k - 1, 1000 * k, 1000 * k + 1} :
                      k \in (1..MaxAge) \cup {maxAgeSecondsDefault}}

\* ------------------------------------------------------------ the host

\* What context.network.sendRequest may resolve to once the request's
\* template is rendered: a response (which the transport also stores), or
\* nothing.
TransportPool ==
    CASE scenario = "policy"   -> {GoodResponse(now)}
      [] scenario = "validate" -> {Undefined} \cup RichResponses(now)
      [] scenario = "context"  -> {Undefined, GoodResponse(now), ErrorResponse(now)}
      [] scenario = "graph"    -> {GoodResponse(now)}
      [] scenario = "concurrent" -> {GoodResponse(now)}

\* `response || (await resendRequest(...))`: the stored response is kept
\* whenever there is one.
Superseded_StoredFirst(result, response) ==
    IF Falsy(response) THEN result ELSE response

\* `response = (await resendRequest(...)) || response`
Superseded(result, response) ==
    IF Falsy(result) THEN response ELSE result

\* context.network.sendRequest resolves: the dependent request's template is
\* rendered, the request is sent, the transport stores its response and run
\* resumes with `(await resendRequest(...)) || response`.
CanHostTransmit ==
    /\ Len(stack) > 1
    /\ Top.pc = "idle"
    /\ Top.tagIdx > Len(template[Top.node])
    /\ TransportPool # {}

HostTransmit ==
    /\ CanHostTransmit
    /\ \E result \in TransportPool :
        LET caller == stack[Len(stack) - 1]
            resumed == [caller EXCEPT
                          !.pc = "validate",
                          !.ev.transport =
                              IF Falsy(result) THEN "nothing" ELSE "response",
                          !.ev.received = result,
                          !.ev.response = Superseded(result, caller.ev.response)]
        IN  /\ stack' = Append(SubSeq(stack, 1, Len(stack) - 2), resumed)
            /\ responseStore' = IF Falsy(result) THEN responseStore
                                ELSE [responseStore EXCEPT ![Top.node] = result]
    /\ steps' = steps + 1
    /\ UNCHANGED <<pushedIds, parked, scenario, template, requestStore, hostShares, now, heap,
                   sendCount, last>>

\* context.network.sendRequest rejects: a tag in the dependent request's
\* template threw, the request is not sent, and the error propagates out of
\* `await resendRequest(...)` and out of run.
CanHostReject == Len(stack) > 1 /\ Top.pc = "failed"

HostReject ==
    /\ CanHostReject
    /\ LET caller == stack[Len(stack) - 1]
           g == Failed([caller EXCEPT !.ev.transport = "rejected"],
                       Top.ev.outcome)
       IN  /\ stack' = Append(SubSeq(stack, 1, Len(stack) - 2), g)
           /\ last' = g.ev
    /\ steps' = steps + 1
    /\ UNCHANGED <<pushedIds, parked, scenario, template, requestStore,
                   responseStore,
                   hostShares, now, heap, sendCount>>

\* The top-level render is over: every tag returned, or one threw.
Done ==
    /\ Len(stack) = 1
    /\ \/ Top.pc = "failed"
       \/ (Top.pc = "idle" /\ Top.tagIdx > Len(template[Top.node]))

\* ------------------------------------------------------------ initial states

\* No second render.
NoRender == [stack |-> <<>>, pushedIds |-> {}]

\* A top-level render of request R1 is about to start.
InitRender(scn, tmpl, stored, purpose, hasChain, chain, shares) ==
    /\ scenario = scn
    /\ template = tmpl
    /\ requestStore = ReqIds
    /\ responseStore = stored
    /\ hostShares = shares
    /\ now = NowMs
    /\ heap = IF hasChain THEN <<chain>> ELSE <<>>
    /\ stack = <<NewFrame(R1, purpose, IF hasChain THEN 1 ELSE 0)>>
    /\ sendCount = [r \in ReqIds |-> 0]
    /\ last = NoEval
    /\ steps = 0
    /\ pushedIds = {}
    /\ parked = NoRender

NoTags == [r \in ReqIds |-> <<>>]

NoResponses == [r \in ReqIds |-> Undefined]

\* The resend policy: one tag on R2, every spelling of the trigger behavior,
\* every maxAgeSeconds, a stored response of every age.
InitPolicy ==
    \E trig \in {Undefined, Str(<<>>), Str(S_never), Str(S_Always),
                 Str(S_NO_HISTORY), Str(S_when_expired), Str(S_When_Expired),
                 Str(S_bogus)},
       maxAge \in {Undefined} \cup {Num(m) : m \in 0..MaxAge},
       stored \in {Undefined} \cup {GoodResponse(NowMs - a) : a \in AgesMs},
       nargs \in 2..4,
       purpose \in {Str(S_send), Str(S_general)} :
        /\ (nargs < 4 => maxAge = Undefined)
        /\ (nargs < 3 => trig = Undefined)
        /\ InitRender("policy",
              [NoTags EXCEPT ![R1] =
                  <<SubSeq(<<Str(R2), Str(<<"s">>), trig, maxAge>>, 1, nargs)>>],
              [NoResponses EXCEPT ![R2] = stored],
              purpose, FALSE, <<>>, FALSE)

\* Validation and extraction: one tag on R2, every response over the samples,
\* stored (the tag never resends) or produced by the transport (it always does).
InitValidate ==
    \E name \in CookieNames,
       resend \in BOOLEAN,
       stored \in {Undefined} \cup RichResponses(NowMs) :
        /\ (resend => stored \in {Undefined, GoodResponse(NowMs),
                                  ErrorResponse(NowMs)})
        /\ InitRender("validate",
              [NoTags EXCEPT ![R1] =
                  <<<<Str(R2), Str(name),
                      Str(IF resend THEN S_always ELSE S_never)>>>>],
              [NoResponses EXCEPT ![R2] = stored],
              Str(S_send), FALSE, <<>>, FALSE)

\* Chains without a repeated id, as a render that started with an empty
\* chain hands them down.
Chains ==
    {c \in UNION {[1..n -> ReqIds] : n \in 0..MaxChain} :
        \A i, j \in 1..Len(c) : c[i] = c[j] => i = j}

\* Arguments and context: one tag with a request id and a cookie name that
\* may be missing, empty or unknown to the store, in a context of any purpose
\* which holds no chain or any chain.
InitContext ==
    \E reqId \in {Undefined, Str(<<>>), Str(R1), Str(R2), Str(Ghost)},
       name \in {Undefined, Str(<<>>), Str(<<"s">>)},
       trig \in {Str(S_never), Str(S_always), Str(S_no_history)},
       purpose \in {Str(S_send), Str(S_general), Undefined},
       hasChain \in BOOLEAN,
       chain \in Chains,
       haveStored \in BOOLEAN,
       shares \in BOOLEAN :
        /\ (~hasChain => chain = <<>>)
        /\ InitRender("context",
              [NoTags EXCEPT ![R1] = <<<<reqId, name, trig>>>>],
              [r \in ReqIds |-> IF haveStored THEN GoodResponse(NowMs)
                                ELSE Undefined],
              purpose, hasChain, chain, shares)

IdOrder == <<R1, R2, R3>>

Rank(r) == CHOOSE i \in 1..Len(IdOrder) : IdOrder[i] = r

\* The tags of request r in a list of (owner, target) pairs.
TagsOf(edges, r, trig) ==
    LET Owned(e) == e[1] = r
        mine == SelectSeq(edges, Owned)
    IN  [i \in 1..Len(mine) |-> <<Str(mine[i][2]), Str(<<"s">>), Str(trig)>>]

\* Dependency graphs: every placement of at most MaxTotalTags tags in the
\* templates of the requests, each tag on any request (itself included), in
\* a send render that starts without a chain.
InitGraph ==
    \E n \in 0..MaxTotalTags :
    \E edges \in [1..n -> ReqIds \X ReqIds] :
    \E trig \in {S_always, S_no_history},
       haveStored \in BOOLEAN,
       shares \in BOOLEAN :
        /\ \A i \in 1..(n - 1) : Rank(edges[i][1]) <= Rank(edges[i + 1][1])
        /\ InitRender("graph",
              [r \in ReqIds |-> TagsOf(edges, r, trig)],
              [r \in ReqIds |-> IF haveStored THEN GoodResponse(NowMs)
                                ELSE Undefined],
              Str(S_send), FALSE, <<>>, shares)

Init == InitPolicy \/ InitValidate \/ InitContext \/ InitGraph

Next ==
    \/ RunStart
    \/ RunFetch
    \/ RunKeep
    \/ RunResendSkip
    \/ RunResend
    \/ RunFinish
    \/ HostTransmit
    \/ HostReject

Spec == Init /\ [][Next]_vars

\* ------------------------------------------------------------ two renders

\* The host suspends the render in progress at an await and resumes the
\* other top-level render where that one was suspended.
CanSwitch == parked.stack # <<>>

Switch ==
    /\ CanSwitch
    /\ stack' = parked.stack
    /\ pushedIds' = parked.pushedIds
    /\ parked' = [stack |-> stack, pushedIds |-> pushedIds]
    /\ UNCHANGED <<scenario, template, requestStore, responseStore,
                   hostShares, now, heap, sendCount, last, steps>>

\* Two top-level send renders, of R1 and of R1 again or of R2, over the same
\* stores: every placement of at most MaxConcurrentTags tags in the templates,
\* neither render's context holding a chain; the stores hold no response, or
\* one for every request when the tags resend for lack of one only.
InitConcurrent ==
    \E n \in 0..MaxConcurrentTags :
    \E edges \in [1..n -> ReqIds \X ReqIds] :
    \E trig \in {S_always, S_no_history},
       haveStored \in BOOLEAN,
       shares \in BOOLEAN,
       second \in {R1, R2} :
        /\ \A i \in 1..(n - 1) : Rank(edges[i][1]) <= Rank(edges[i + 1][1])
        /\ (trig = S_always => ~haveStored)
        /\ scenario = "concurrent"
        /\ template = [r \in ReqIds |-> TagsOf(edges, r, trig)]
        /\ requestStore = ReqIds
        /\ responseStore = [r \in ReqIds |-> IF haveStored
                                             THEN GoodResponse(NowMs)
                                             ELSE Undefined]
        /\ hostShares = shares
        /\ now = NowMs
        /\ heap = <<>>
        /\ stack = <<NewFrame(R1, Str(S_send), 0)>>
        /\ sendCount = [r \in ReqIds |-> 0]
        /\ last = NoEval
        /\ steps = 0
        /\ pushedIds = {}
        /\ parked = [stack |-> <<NewFrame(second, Str(S_send), 0)>>,
                     pushedIds |-> {}]

NextConcurrent == Next \/ Switch

ConcurrentSpec == InitConcurrent /\ [][NextConcurrent]_vars

\* A step of the render is possible: each action's condition, its effect
\* being defined whenever the condition holds.
CanStep ==
    \/ CanRunStart
    \/ CanRunFetch
    \/ CanRunKeep
    \/ CanRunResendSkip
    \/ CanRunResend
    \/ CanRunFinish
    \/ CanHostTransmit
    \/ CanHostReject


\* ------------------------------------------------------------ properties

\* Every evaluation of the tag the state holds: those in progress, one per
\* render on the stack, and the one that completed last.
Evals == {stack[i].ev : i \in 1..Len(stack)} \cup {last}

Absent(v) == v = Undefined

AbsentOrEmpty(v) == v = Undefined \/ v = Str(<<>>)

IsSend(e) == e.purpose = Str(<<"s","e","n","d">>)

Ended(e) == e.outcome.kind # "none"

ErrorIs(e, message) ==
    e.outcome.kind = "throw" /\ e.outcome.name = "Error"
        /\ e.outcome.message = message

\* C1: the resend decision follows the decision table: with "never" it is
\* false whether or not a last response exists and whatever its age, with
\* "no-history" it is true exactly when no last response exists, and with
\* "always" it is true whether or not one exists.
C1_DecisionTable ==
    \A e \in Evals : e.decided =>
        /\ (e.options.triggerBehavior = <<"n","e","v","e","r">>
                => ~e.shouldResend)
        /\ (e.options.triggerBehavior = <<"n","o","-","h","i","s","t","o","r","y">>
                => (e.shouldResend <=> Absent(e.fetched)))
        /\ (e.options.triggerBehavior = <<"a","l","w","a","y","s">>
                => e.shouldResend)

\* C1 witness: a "no-history" evaluation found a stored response, decided not
\* to resend and returned a cookie of it.
C1_Witness ==
    /\ last.decided
    /\ last.options.triggerBehavior = S_no_history
    /\ ~Absent(last.fetched)
    /\ ~last.shouldResend
    /\ last.outcome.kind = "return"

\* C2: with "when-expired" and a number M as maxAgeSeconds, the decision is
\* true when no last response exists, and with a last response it is true
\* exactly when the age is above M seconds: false at an age of M seconds
\* sharp, true one millisecond later.
C2_WhenExpired ==
    \A e \in Evals :
        (/\ e.decided
         /\ e.options.triggerBehavior = <<"w","h","e","n","-","e","x","p","i","r","e","d">>
         /\ e.options.maxAgeSeconds.t = "number") =>
            LET M == e.options.maxAgeSeconds.n IN
            IF Absent(e.fetched) THEN e.shouldResend
            ELSE LET ageMs == now - e.fetched.created IN
                 /\ (ageMs <= 1000 * M => ~e.shouldResend)
                 /\ (ageMs >= 1000 * M + 1 => e.shouldResend)

\* C2 witness: a last response one millisecond older than M >= 1 seconds was
\* decided stale.
C2_Witness ==
    /\ last.decided
    /\ last.options.triggerBehavior = S_when_expired
    /\ last.options.maxAgeSeconds.t = "number"
    /\ last.options.maxAgeSeconds.n >= 1
    /\ ~Absent(last.fetched)
    /\ now - last.fetched.created = 1000 * last.options.maxAgeSeconds.n + 1
    /\ last.shouldResend

\* The dependent request's id is in the chain the evaluation's context held.
OwnIdInChain(e) ==
    /\ ~Absent(e.request)
    /\ \E i \in 1..Len(e.chainAtStart) : e.chainAtStart[i] = e.request.id

\* C3: an evaluation whose dependent request is already in the chain of its
\* context never invokes the transport, goes on with the response it fetched
\* from the store, and ends as the validation of that response ends: with
\* "No responses for request" when there is none, never with an error about
\* the cycle.
C3_CycleGuard ==
    \A e \in Evals : (e.hadChain /\ OwnIdInChain(e)) =>
        /\ e.nSend = 0
        /\ e.transport = "none"
        /\ (e.decided => e.response = e.fetched)
        /\ (Ended(e) => e.outcome = ValidateAndExtract(e.fetched, e.options))
        /\ (Ended(e) /\ Absent(e.fetched)
                => ErrorIs(e, "No responses for request"))

\* C3 witness: a send render decided to resend a request that was in the
\* chain, no response was stored, and the evaluation ended with
\* "No responses for request".
C3_Witness ==
    /\ last.hadChain /\ OwnIdInChain(last)
    /\ last.shouldResend /\ IsSend(last)
    /\ Absent(last.fetched)
    /\ ErrorIs(last, "No responses for request")

\* C4: an evaluation in a render whose purpose is not "send" never invokes
\* the transport, whatever the decision and the chain, and a render whose
\* purpose is not "send" executes no request at all; when a resend was
\* decided and no response is stored, the evaluation ends with
\* "No responses for request".
C4_PreviewNoTransport ==
    /\ \A e \in Evals : (e.node # <<>> /\ ~IsSend(e)) =>
          /\ e.nSend = 0
          /\ e.transport = "none"
          /\ (Ended(e) /\ e.shouldResend /\ Absent(e.fetched)
                => ErrorIs(e, "No responses for request"))
    /\ (stack[1].purpose # Str(<<"s","e","n","d">>)
            => Len(stack) = 1 /\ \A r \in ReqIds : sendCount[r] = 0)

\* C4 witness: a preview evaluation decided to resend, had no stored response
\* and ended with "No responses for request".
C4_Witness ==
    /\ last.node # <<>> /\ ~IsSend(last)
    /\ last.decided /\ last.shouldResend
    /\ Absent(last.fetched)
    /\ ErrorIs(last, "No responses for request")

\* C5 (as claimed): within one top-level render no request is executed by the
\* transport more than once.
C5_SentAtMostOnce == \A r \in ReqIds : sendCount[r] <= 1

\* Evaluations a render can hold: at most MaxTotalTags in each template, in
\* renders nested no deeper than one per request under the top-level one.
RECURSIVE Power(_, _)
Power(b, n) == IF n = 0 THEN 1 ELSE b * Power(b, n - 1)

EvalBound ==
    LET Sum[d \in 0..(Cardinality(ReqIds) + 1)] ==
            IF d = 0 THEN 0 ELSE Sum[d - 1] + Power(MaxTotalTags, d)
    IN  Sum[Cardinality(ReqIds) + 1]

TotalSends == sendCount[R1] + sendCount[R2] + sendCount[R3]

\* C6: every top-level render comes to its end, returning or failing, over
\* every dependency graph, self-references and cycles included: as long as
\* the render is not over, a step of it is possible (the stores and the
\* transport answering), every step is counted, and the count of steps (at
\* most five for an evaluation: its start, the two store answers, the answer
\* of the transport, its end) and the count of transport executions stay
\* under a fixed bound.
C6_Terminates ==
    /\ (Done \/ CanStep)
    /\ steps <= 5 * EvalBound
    /\ TotalSends <= EvalBound
    /\ Len(stack) <= Cardinality(ReqIds) + 1

\* Request a has a tag on request b.
DependsOn(a, b) ==
    \E i \in 1..Len(template[a]) : template[a][i][1] = Str(b)

\* C6 witness: the render of R1 ended although R1 and R2 refer to each other,
\* and both were executed.
C6_Witness ==
    /\ Done
    /\ DependsOn(R1, R2) /\ DependsOn(R2, R1)
    /\ sendCount[R1] >= 1 /\ sendCount[R2] >= 1

\* The response carries a transport error.
HasError(r) == r.error.t = "string" /\ r.error.s # <<>>

\* The messages of the three validation errors.
ValidationMessages ==
    {"No responses for request", "Failed to send dependent request $1",
     "No successful responses for request"}

\* C7: the response left after the fetch and the resend is validated in a
\* fixed order: none at all fails with "No responses for request"; else a
\* transport error fails with "Failed to send dependent request", with or
\* without a status code; else no status code fails with "No successful
\* responses for request", whatever the headers hold.  These failures are
\* raised only after the response store was asked, and no stored response
\* with "never" ends in "No responses for request".
C7_ValidationOrder ==
    \A e \in Evals :
        /\ (Ended(e) /\ e.decided /\ e.transport # "rejected") =>
              /\ Absent(e.response) => ErrorIs(e, "No responses for request")
              /\ (~Absent(e.response) /\ HasError(e.response))
                    => /\ ErrorIs(e, "Failed to send dependent request $1")
                       /\ e.outcome.parts = <<e.response.error.s>>
              /\ (~Absent(e.response) /\ ~HasError(e.response)
                    /\ Absent(e.response.statusCode))
                    => ErrorIs(e, "No successful responses for request")
        /\ (Ended(e) /\ e.transport # "rejected"
                /\ e.outcome.message \in ValidationMessages)
              => (e.decided /\ e.nGetLatest = 1)
        /\ (Ended(e) /\ e.decided /\ Absent(e.fetched)
                /\ e.options.triggerBehavior = <<"n","e","v","e","r">>)
              => ErrorIs(e, "No responses for request")

\* C7 witness: a response without a status code, without an error and with a
\* Set-Cookie header holding the requested cookie ended in "No successful
\* responses for request".
C7_Witness ==
    /\ ~Absent(last.response)
    /\ Absent(last.response.statusCode)
    /\ ~HasError(last.response)
    /\ \E i \in 1..Len(last.response.headers) :
          /\ toLowerCase(last.response.headers[i].name) = S_set_cookie
          /\ CookieParse(last.response.headers[i].value) # Undefined
          /\ CookieParse(last.response.headers[i].value).key
                = last.options.cookieName.s
    /\ ErrorIs(last, "No successful responses for request")

\* C8: an evaluation whose request id or cookie name is absent or empty fails
\* with "No request specified" or "No cookie specified" without a call of
\* the request store, the response store or the transport.
C8_MissingArgument ==
    \A e \in Evals :
        (/\ e.node # <<>>
         /\ \/ AbsentOrEmpty(ArgAt(e.args, 0))
            \/ AbsentOrEmpty(ArgAt(e.args, 1))) =>
            /\ \/ ErrorIs(e, "No request specified")
               \/ ErrorIs(e, "No cookie specified")
            /\ e.nGetById = 0
            /\ e.nGetLatest = 0
            /\ e.nSend = 0
            /\ e.transport = "none"

\* C8 witness: an evaluation with a request id and an empty cookie name
\* failed with "No cookie specified".
C8_Witness ==
    /\ last.node # <<>>
    /\ ~AbsentOrEmpty(ArgAt(last.args, 0))
    /\ ArgAt(last.args, 1) = Str(<<>>)
    /\ ErrorIs(last, "No cookie specified")

\* The request store was asked and held no request of the given id.
RequestMissing(e) ==
    /\ e.nGetById = 1
    /\ e.options.reqId.s \notin requestStore
    /\ (Ended(e) \/ e.nGetLatest = 1)

\* C9 (as claimed): when the request store holds no request of the given id,
\* the evaluation fails with the error "Could not find request <id>" and
\* calls neither the response store nor the transport.
C9_RequestNotFound ==
    \A e \in Evals : RequestMissing(e) =>
        /\ ErrorIs(e, "Could not find request $1")
        /\ e.outcome.parts = <<e.options.reqId.s>>
        /\ e.nGetLatest = 0
        /\ e.nSend = 0

\* The positions of the Set-Cookie headers of a response.
SetCookieAt(r) ==
    {i \in 1..Len(r.headers) :
        toLowerCase(r.headers[i].name) = <<"s","e","t","-","c","o","o","k","i","e">>}

\* C10: a returned value is the value of the first cookie, in the order of
\* the Set-Cookie headers, whose key is the requested name letter for letter;
\* no later cookie of that key and no cookie whose key differs in case is
\* returned.
C10_FirstMatch ==
    \A e \in Evals : e.outcome.kind = "return" =>
        \E i \in SetCookieAt(e.response) :
            /\ CookieParse(e.response.headers[i].value).key
                  = e.options.cookieName.s
            /\ CookieParse(e.response.headers[i].value).value
                  = e.outcome.parts[1]
            /\ \A j \in SetCookieAt(e.response) : j < i =>
                  CookieParse(e.response.headers[j].value).key
                      # e.options.cookieName.s

\* C10 witness: two Set-Cookie headers hold the requested key with different
\* values and the value of the first was returned.
C10_Witness ==
    /\ last.outcome.kind = "return"
    /\ \E i, j \in SetCookieAt(last.response) :
          /\ i < j
          /\ CookieParse(last.response.headers[i].value).key
                = last.options.cookieName.s
          /\ CookieParse(last.response.headers[j].value).key
                = last.options.cookieName.s
          /\ CookieParse(last.response.headers[i].value).value
                # CookieParse(last.response.headers[j].value).value
          /\ last.outcome.parts = <<CookieParse(last.response.headers[i].value).value>>

\* The response passed validation: it carries no error and has a status code
\* other than 0.
PassedValidation(r) ==
    /\ ~Absent(r)
    /\ ~HasError(r)
    /\ r.statusCode.t = "number" /\ r.statusCode.n # 0

\* The Set-Cookie headers of a response that parse as a cookie, by position.
ParsedAt(r) ==
    {i \in SetCookieAt(r) : CookieParse(r.headers[i].value) # Undefined}

\* The keys of the cookies at the given header positions, lowest position
\* first, with ", " between two keys.
ListedKeys(r, positions) ==
    LET Upto[n \in 0..Len(r.headers)] ==
            IF n = 0 THEN <<>>
            ELSE IF n \notin positions THEN Upto[n - 1]
            ELSE IF \E m \in positions : m < n
                 THEN Upto[n - 1] \o <<",", " ">>
                        \o CookieParse(r.headers[n].value).key
                 ELSE CookieParse(r.headers[n].value).key
    IN  Upto[Len(r.headers)]

\* The evaluation reached the validation of a response.
Validated(e) == Ended(e) /\ e.decided /\ e.transport # "rejected"

\* C11 (as claimed): when a response that passed validation has at least one
\* Set-Cookie cookie and none whose key is the requested name, the evaluation
\* fails with "No <name> cookie for response. Choices are <keys>.", the keys
\* being those of the parsed cookies, duplicates kept, in header order,
\* joined by ", ".
C11_CookieNotFound ==
    \A e \in Evals :
        (/\ Validated(e)
         /\ PassedValidation(e.response)
         /\ ParsedAt(e.response) # {}
         /\ \A i \in ParsedAt(e.response) :
               CookieParse(e.response.headers[i].value).key
                   # e.options.cookieName.s) =>
            /\ ErrorIs(e, "No $1 cookie for response. Choices are $2.")
            /\ e.outcome.parts =
                  <<e.options.cookieName.s,
                    ListedKeys(e.response, ParsedAt(e.response))>>

\* C12 (as claimed): maxAgeSeconds defaults to 60: with "when-expired" and no
\* maxAgeSeconds argument, a present last response is decided stale exactly
\* when it is older than 60 seconds.
C12_DefaultMaxAge ==
    \A e \in Evals :
        (/\ e.decided
         /\ e.options.triggerBehavior = S_when_expired
         /\ Len(e.args) < 4
         /\ ~Absent(e.fetched)) =>
            (e.shouldResend <=>
                now - e.fetched.created > 1000 * maxAgeSecondsDefault)

\* The argument is a string that spells the word, capital or small letters
\* alike.
Spells(v, word) ==
    /\ v.t = "string"
    /\ Len(v.s) = Len(word)
    /\ \A i \in 1..Len(word) :
          \/ v.s[i] = word[i]
          \/ \E k \in 1..26 : UpperChars[k] = v.s[i] /\ LowerChars[k] = word[i]

\* The argument is a non-empty string that spells none of the four behaviors.
Unrecognized(v) ==
    /\ v.t = "string" /\ v.s # <<>>
    /\ \A word \in {<<"n","e","v","e","r">>,
                    <<"n","o","-","h","i","s","t","o","r","y">>,
                    <<"w","h","e","n","-","e","x","p","i","r","e","d">>,
                    <<"a","l","w","a","y","s">>} : ~Spells(v, word)

\* C13: the trigger behavior argument counts whatever its capitals: spelled
\* "always" it decides true, spelled "no-history" it decides true exactly when
\* no last response exists, spelled "when-expired" with a number M it decides
\* by the age against M, spelled "never", absent or empty it decides false.
\* An unrecognized string is not rejected: the decision is false with and
\* without a last response, nothing is sent, and the evaluation ends on the
\* stored response as a "never" evaluation does.
C13_TriggerNormalized ==
    \A e \in Evals : e.decided =>
        LET arg == ArgAt(e.args, 2) IN
        /\ (AbsentOrEmpty(arg) \/ Spells(arg, <<"n","e","v","e","r">>)
                => ~e.shouldResend)
        /\ (Spells(arg, <<"a","l","w","a","y","s">>) => e.shouldResend)
        /\ (Spells(arg, <<"n","o","-","h","i","s","t","o","r","y">>)
                => (e.shouldResend <=> Absent(e.fetched)))
        /\ ((/\ Spells(arg, <<"w","h","e","n","-","e","x","p","i","r","e","d">>)
             /\ ArgAt(e.args, 3).t = "number")
                => (e.shouldResend <=>
                      \/ Absent(e.fetched)
                      \/ now - e.fetched.created > 1000 * ArgAt(e.args, 3).n))
        /\ (Unrecognized(arg) =>
                /\ ~e.shouldResend
                /\ e.nSend = 0
                /\ (Ended(e) =>
                      IF Absent(e.fetched)
                      THEN ErrorIs(e, "No responses for request")
                      ELSE e.response = e.fetched
                             /\ ~ErrorIs(e, "No responses for request")))

\* C13 witness: an argument in capitals, "NO-HISTORY", found no last response,
\* decided to resend and sent; and an unrecognized one ended on a stored
\* response's cookie.
C13_Witness ==
    \/ /\ last.decided
       /\ ArgAt(last.args, 2) = Str(S_NO_HISTORY)
       /\ Absent(last.fetched)
       /\ last.shouldResend
       /\ last.nSend = 1
    \/ /\ last.decided
       /\ Unrecognized(ArgAt(last.args, 2))
       /\ ~Absent(last.fetched)
       /\ last.outcome.kind = "return"

\* s is the beginning of t.
IsPrefix(s, t) == Len(s) <= Len(t) /\ SubSeq(t, 1, Len(s)) = s

\* C14 (as claimed): the chain forwarded to the transport is the chain read
\* from the context with the request's id appended, and the chain the context
\* holds is left as it was, during the re-execution and after it.
C14_ForwardedByCopy ==
    /\ \A i \in 1..Len(stack) :
          stack[i].ev.nSend = 1 =>
             /\ stack[i].ev.sentChain =
                   Append(stack[i].ev.chainAtStart, stack[i].ev.request.id)
             /\ ChainOf(stack[i]) = stack[i].ev.chainAtStart
    /\ (last.nSend = 1 /\ Ended(last)) => last.chainAtEnd = last.chainAtStart

\* C14 (amended): the chain forwarded to the transport is the chain read from
\* the context with the request's id appended.  The chain the context holds
\* is left as it was when the context holds none or the host hands its array
\* over as a copy; when the host hands over the array itself, the id is
\* appended to the context's own chain, which from then on begins with the
\* forwarded chain, for every later evaluation in that context too.
C14_ForwardedChain ==
    /\ \A i \in 1..Len(stack) :
          stack[i].ev.nSend = 1 =>
             /\ stack[i].ev.sentChain =
                   Append(stack[i].ev.chainAtStart, stack[i].ev.request.id)
             /\ IF hostShares /\ stack[i].ev.hadChain
                THEN IsPrefix(stack[i].ev.sentChain, ChainOf(stack[i]))
                ELSE ChainOf(stack[i]) = stack[i].ev.chainAtStart
    /\ (last.nSend = 1 /\ Ended(last)) =>
          IF hostShares /\ last.hadChain
          THEN IsPrefix(last.sentChain, last.chainAtEnd)
          ELSE last.chainAtEnd = last.chainAtStart

\* C14 witness: an evaluation in a context that held a chain, under a host
\* that hands its array over, re-executed its request and ended with the
\* request's id in the context's chain.
C14_Witness ==
    /\ hostShares
    /\ last.hadChain
    /\ last.nSend = 1
    /\ last.outcome.kind = "return"
    /\ last.chainAtEnd = Append(last.chainAtStart, last.request.id)

\* C15: a response the re-execution yields takes the place of the fetched
\* one, and the evaluation ends on it alone: with an error in it the
\* evaluation fails with "Failed to send dependent request", without a status
\* code with "No successful responses for request", however valid the stored
\* response was.  When the transport yields nothing, the fetched response is
\* kept and the evaluation ends on it.
C15_Supersedes ==
    \A e \in Evals : Ended(e) =>
        /\ e.transport = "response" =>
              /\ ~Absent(e.received)
              /\ e.response = e.received
              /\ ~ErrorIs(e, "No responses for request")
              /\ HasError(e.received) <=>
                    ErrorIs(e, "Failed to send dependent request $1")
              /\ HasError(e.received) => e.outcome.parts = <<e.received.error.s>>
              /\ (~HasError(e.received) /\ ~PassedValidation(e.received)) <=>
                    ErrorIs(e, "No successful responses for request")
        /\ e.transport = "nothing" =>
              /\ Absent(e.received)
              /\ e.response = e.fetched
              /\ Absent(e.fetched) <=> ErrorIs(e, "No responses for request")
              /\ (~Absent(e.fetched) /\ HasError(e.fetched)) <=>
                    ErrorIs(e, "Failed to send dependent request $1")
              /\ PassedValidation(e.fetched) =>
                    ~(e.outcome.kind = "throw"
                        /\ e.outcome.message \in ValidationMessages)

\* C15 witness: the stored response was valid, the re-execution yielded one
\* with an error, and the evaluation failed with that error.
C15_Witness ==
    /\ last.transport = "response"
    /\ PassedValidation(last.fetched)
    /\ HasError(last.received)
    /\ ErrorIs(last, "Failed to send dependent request $1")

\* No id is twice in the chain.
NoRepeat(chain) ==
    \A i, j \in 1..Len(chain) : chain[i] = chain[j] => i = j

\* C16: in every state of a render every chain, held by a context or
\* forwarded to the transport, holds each request id at most once, so no
\* chain is longer than the number of request ids; a nested context's chain is
\* at least as long as the context is deep, so the nesting of re-executions
\* is no deeper than the number of request ids either.
C16_ChainBounded ==
    /\ \A k \in 1..Len(heap) :
          NoRepeat(heap[k]) /\ Len(heap[k]) <= Cardinality(ReqIds)
    /\ \A e \in Evals :
          /\ NoRepeat(e.chainAtStart) /\ NoRepeat(e.sentChain)
          /\ NoRepeat(e.chainAtEnd)
          /\ Len(e.sentChain) <= Cardinality(ReqIds)
    /\ \A i \in 2..Len(stack) : Len(ChainOf(stack[i])) >= i - 1
    /\ Len(stack) - 1 <= Cardinality(ReqIds)

\* C16 witness: a render that started with an empty chain nested as deep as
\* there are request ids, its innermost chain holds them all, and the cycle
\* guard stopped the next re-execution.
C16_Witness ==
    /\ scenario = "graph"
    /\ Len(stack) - 1 = Cardinality(ReqIds)
    /\ Len(ChainOf(Top)) = Cardinality(ReqIds)
    /\ Top.ev.guardHit

\* The ids in a chain.
IdsOf(chain) == {chain[i] : i \in 1..Len(chain)}

\* The arrays the contexts of a render hold.
ArraysOf(frames) == {frames[i].chainRef : i \in 1..Len(frames)} \ {0}

\* In a render's contexts every chain holds only ids this render pushed, and
\* a cycle guard that skipped a re-execution did so for an id this render
\* pushed.
OwnChains(frames, ids) ==
    \A i \in 1..Len(frames) :
        /\ IdsOf(ChainOf(frames[i])) \subseteq ids
        /\ frames[i].ev.decided => IdsOf(frames[i].ev.chainAtStart) \subseteq ids
        /\ frames[i].ev.guardHit => frames[i].ev.request.id \in ids

\* C17: two top-level renders that run at once, interleaved at any await,
\* each carry their own chain: no array is held by contexts of both, the
\* chains one render sees hold only ids pushed in that render, and its cycle
\* guard skips only for an id that render pushed itself.
C17_RendersIndependent ==
    /\ ArraysOf(stack) \cap ArraysOf(parked.stack) = {}
    /\ OwnChains(stack, pushedIds)
    /\ OwnChains(parked.stack, parked.pushedIds)

\* C17 witness: both top-level renders are inside a re-execution of the same
\* request at once, the later one not skipped by the cycle guard.
C17_Witness ==
    /\ Len(stack) > 1 /\ Len(parked.stack) > 1
    /\ stack[1].ev.nSend = 1 /\ parked.stack[1].ev.nSend = 1
    /\ stack[1].ev.request.id = parked.stack[1].ev.request.id
    /\ ~stack[1].ev.guardHit /\ ~parked.stack[1].ev.guardHit

\* The positions of the headers named "set-cookie", capitals or not.
NamedSetCookie(r) ==
    {i \in 1..Len(r.headers) :
        Spells(Str(r.headers[i].name),
               <<"s","e","t","-","c","o","o","k","i","e">>)}

\* C18: for a response that passed validation the cookies considered are
\* those parsed from the headers named "set-cookie" in any capitals, one per
\* such header, in header order, and none from any other header: the k-th
\* cookie is the parse of the k-th such header, the choices a failed lookup
\* lists are their keys in that order, and the evaluation fails with "No
\* cookies set for response" exactly when there is no such header.
C18_CookiesConsidered ==
    \A e \in Evals :
        (Validated(e) /\ PassedValidation(e.response)) =>
            LET r == e.response
                at == NamedSetCookie(r)
                cookies == getCookies(r)
            IN  /\ Len(cookies) = Cardinality(at)
                /\ \A i \in at :
                      cookies[Cardinality({j \in at : j <= i})]
                          = CookieParse(r.headers[i].value)
                /\ ErrorIs(e, "No cookies set for response") <=> at = {}
                /\ ErrorIs(e, "No $1 cookie for response. Choices are $2.")
                      => e.outcome.parts[2] = ListedKeys(r, at)

\* C18 witness: a validated response with a header named in capitals and a
\* header of another name; the lookup ended on the cookie of the first, as
\* the value returned or as the one choice listed.
C18_Witness ==
    /\ Validated(last) /\ PassedValidation(last.response)
    /\ \E i \in NamedSetCookie(last.response) :
          /\ last.response.headers[i].name
                # <<"s","e","t","-","c","o","o","k","i","e">>
          /\ \/ last.outcome.parts
                  = <<CookieParse(last.response.headers[i].value).value>>
             \/ /\ ErrorIs(last, "No $1 cookie for response. Choices are $2.")
                /\ last.outcome.parts[2]
                     = CookieParse(last.response.headers[i].value).key
    /\ \E j \in 1..Len(last.response.headers) :
          j \notin NamedSetCookie(last.response)

\* The response an evaluation ends on: what the transport produced, if it
\* produced a response, and the stored last response otherwise.
TakenFrom(e) == IF e.transport = "response" THEN e.received ELSE e.fetched

\* The response carries a cookie of the requested name and that value.
CarriesCookie(r, name, value) ==
    \E i \in NamedSetCookie(r) :
        /\ CookieParse(r.headers[i].value) # Undefined
        /\ CookieParse(r.headers[i].value).key = name
        /\ CookieParse(r.headers[i].value).value = value

\* C19: an evaluation that returns a value took it from a response without
\* an error and with a status code other than 0, from a cookie of that
\* response whose key is the requested name.  An evaluation ends in one way:
\* it returns a value and its render goes on, or it throws and its render is
\* aborted.  Where the response is missing or invalid, or holds no cookie of
\* that name, the evaluation throws: no value stands in for the failure.
C19_ReturnsOnlyValid ==
    /\ \A e \in Evals :
          /\ e.outcome.kind = "return" =>
                /\ PassedValidation(TakenFrom(e))
                /\ Len(e.outcome.parts) = 1
                /\ CarriesCookie(TakenFrom(e), e.options.cookieName.s,
                                 e.outcome.parts[1])
                /\ e.outcome.name = "" /\ e.outcome.message = ""
          /\ (/\ Validated(e)
              /\ \/ ~PassedValidation(TakenFrom(e))
                 \/ \A i \in ParsedAt(TakenFrom(e)) :
                       CookieParse(TakenFrom(e).headers[i].value).key
                           # e.options.cookieName.s)
                => e.outcome.kind = "throw"
          /\ e.outcome.kind = "throw" => e.outcome.name # ""
    /\ \A i \in 1..Len(stack) :
          stack[i].pc = "failed" <=> stack[i].ev.outcome.kind = "throw"

\* C19 witness: no valid response was stored, the re-execution produced one,
\* and the evaluation returned the value of its cookie.
C19_Witness ==
    /\ last.outcome.kind = "return"
    /\ last.transport = "response"
    /\ ~PassedValidation(last.fetched)
    /\ CarriesCookie(last.received, last.options.cookieName.s,
                     last.outcome.parts[1])

====
